---- MODULE Spec2Model ----
(***************************************************************************)
(* Model of automated_testing/run_test_suites.py: CommandExecutor (a       *)
(* worker thread that runs a batch of shell commands one after another,    *)
(* and the calling thread that enforces a collective timeout), and the     *)
(* setup / test suites / teardown workflow that drives it.                 *)
(***************************************************************************)
EXTENDS Integers, Sequences, FiniteSets, TLC

\* ------------------------------------------------------------------ bounds
MaxCmds == 3
MaxRuns == 2
MaxStatus == 3

\* signal.SIGTERM: a process killed by it has returncode -SIGTERM
SIGTERM == 15

\* ------------------------------------------------------------------ inputs
CmdNames == {"A", "B"}
TimeoutValues == {-1, 0, 1}
ExitCodes == {0, 1}

RECURSIVE SeqsUpTo(_, _)
SeqsUpTo(S, n) ==
    IF n = 0 THEN {<<>>}
    ELSE LET shorter == SeqsUpTo(S, n - 1)
         IN  shorter \cup {Append(s, x) : s \in {t \in shorter : Len(t) = n - 1}, x \in S}

Batches == SeqsUpTo(CmdNames, MaxCmds)

\* Python's None / True / False as returned in the first tuple element
None == "None"
PyTrue == "True"
PyFalse == "False"

VARIABLES
    caller,                  \* "direct": CommandExecutor used on its own; "workflow": run_test_suites
    phase,                   \* position of run_test_suites / _execute_commands_and_build_email
    setup_timeout, test_suites_timeout, teardown_timeout,
    test_suites,             \* the test suite commands of the workflow
    runs,                    \* number of __call__ invocations so far
    cmds, stop_on_first_failure, log_individual_cmds, log_f,   \* executor members
    cmds_succeeded, individual_cmds_status,                    \* self._cmds_succeeded, self._individual_cmds_status
    running_process, running_process_lock,
    timeout_occurred, timeout_occurred_lock,
    timeout,                 \* argument of the current __call__
    mpc, is_alive, result,   \* calling thread: position, value of is_alive() at line 480, returned tuple
    wpc, i, proc, ret_val,   \* worker thread: position, loop index, proc, ret_val
    observed,                \* history: the worker read _timeout_occurred as True
    spawned,                 \* history: the commands (indexes) this run called Popen for
    rets,                    \* history: the return codes this run got from communicate()
    log_start,               \* history: the length of log_f when the current run began
    test_suites_status, summary, spc, si,   \* _build_email_summary: argument, summary, position, loop index
    procs                    \* operating system: every process spawned so far, pid = index

execVars == <<cmds, stop_on_first_failure, log_individual_cmds, log_f>>
callVars == <<cmds_succeeded, individual_cmds_status, running_process,
              running_process_lock, timeout_occurred, timeout_occurred_lock, timeout>>
mainVars == <<mpc, is_alive, result>>
workerVars == <<wpc, i, proc, ret_val, observed, spawned, rets>>
wfVars == <<caller, phase, setup_timeout, test_suites_timeout, teardown_timeout, test_suites>>
summaryVars == <<test_suites_status, summary, spc, si>>
auxVars == <<log_start, summaryVars>>
vars == <<wfVars, runs, execVars, callVars, mainVars, workerVars, procs, auxVars>>

\* ------------------------------------------------------------ pure helpers

\* variant of lines 523-525 with a single newline after each of the three headers
FrameSingleNewline(cmd, stdout, stderr) ==
    <<"Command:\n", cmd, "\n\n", "Stdout:\n", stdout, "\n", "Stderr:\n", stderr, "\n">>

\* lines 523-526: cmd_str + stdout_str + stderr_str, as the sequence of its pieces
Frame(cmd, stdout, stderr) ==
    <<"Command:\n\n", cmd, "\n\n", "Stdout:\n\n", stdout, "\n", "Stderr:\n\n", stderr, "\n">>

\* what communicate() reads from the pipes of the process running cmd
Stdout(cmd) == "out"
Stderr(cmd) == "err"

\* variant of line 66 that lets a zero timeout through
InvalidTimeoutsStrict(s, t, d) == s < 0 \/ t < 0 \/ d < 0

\* line 66
InvalidTimeouts(s, t, d) == s <= 0 \/ t <= 0 \/ d <= 0

\* lines 196-213: one start command, one command per test suite, one terminate command
setup_cmds == <<"start">>
teardown_cmds == <<"terminate">>
test_suites_cmds == test_suites

NoResult == <<>>
NoProcess == 0

\* the state a process is in: running, exited (a zombie: its exit status not yet
\* waited for), reaped (waited for: the system has forgotten its status)
NewProcess == [st |-> "running", code |-> 0]

\* --------------------------------------------------------------------- Init
Init ==
    /\ caller \in {"direct", "workflow"}
    /\ phase = "entry"
    /\ IF caller = "workflow"
       THEN /\ setup_timeout \in TimeoutValues
            /\ test_suites_timeout \in TimeoutValues
            /\ teardown_timeout \in TimeoutValues
            /\ test_suites \in Batches \ {<<>>}          \* lines 119-121
            /\ cmds = <<>>
            /\ stop_on_first_failure = FALSE
            /\ log_individual_cmds = FALSE
       ELSE /\ setup_timeout = 1
            /\ test_suites_timeout = 1
            /\ teardown_timeout = 1
            /\ test_suites = <<>>
            /\ cmds \in Batches                           \* lines 435-438
            /\ stop_on_first_failure \in BOOLEAN
            /\ log_individual_cmds \in BOOLEAN
    /\ runs = 0
    /\ log_f = <<>>
    /\ cmds_succeeded = PyTrue
    /\ individual_cmds_status = <<>>
    /\ running_process = NoProcess
    /\ running_process_lock = "free"
    /\ timeout_occurred = FALSE
    /\ timeout_occurred_lock = "free"
    /\ timeout = 1
    /\ mpc = "idle"
    /\ is_alive = FALSE
    /\ result = NoResult
    /\ wpc = "unstarted"
    /\ i = 0
    /\ proc = NoProcess
    /\ ret_val = 0
    /\ observed = FALSE
    /\ spawned = <<>>
    /\ rets = <<>>
    /\ procs = <<>>
    /\ log_start = 0
    /\ test_suites_status = <<>>
    /\ summary = <<>>
    /\ spc = "unused"
    /\ si = 0

\* ------------------------------------------------- CommandExecutor.__call__

\* variant of lines 461-477 in which the outcome flag is not reset (line 461 dropped)
CallKeepsOutcome(t) ==
    /\ cmds_succeeded' = cmds_succeeded
    /\ individual_cmds_status' = <<>>
    /\ running_process' = NoProcess
    /\ running_process_lock' = "free"
    /\ timeout_occurred' = FALSE
    /\ timeout_occurred_lock' = "free"
    /\ timeout' = t
    /\ runs' = runs + 1
    /\ mpc' = "join"
    /\ is_alive' = FALSE
    /\ result' = NoResult
    /\ wpc' = "for"
    /\ i' = 0
    /\ proc' = NoProcess
    /\ ret_val' = 0
    /\ observed' = FALSE
    /\ spawned' = <<>>
    /\ rets' = <<>>
    /\ log_start' = Len(log_f)
    /\ UNCHANGED <<log_f, procs, summaryVars>>

\* lines 461-477: reset the per-run state, create the locks, start the worker
Call(t) ==
    /\ cmds_succeeded' = PyTrue
    /\ individual_cmds_status' = <<>>
    /\ running_process' = NoProcess
    /\ running_process_lock' = "free"
    /\ timeout_occurred' = FALSE
    /\ timeout_occurred_lock' = "free"
    /\ timeout' = t
    /\ runs' = runs + 1
    /\ mpc' = "join"
    /\ is_alive' = FALSE
    /\ result' = NoResult
    /\ wpc' = "for"
    /\ i' = 0
    /\ proc' = NoProcess
    /\ ret_val' = 0
    /\ observed' = FALSE
    /\ spawned' = <<>>
    /\ rets' = <<>>
    /\ log_start' = Len(log_f)
    /\ UNCHANGED <<log_f, procs, summaryVars>>

\* line 478: join(timeout) comes back when the worker has finished or when the
\* timeout has elapsed, which can be at any point of the worker's progress
M_JoinTimed ==
    /\ mpc = "join"
    /\ mpc' = "is_alive"
    /\ UNCHANGED <<auxVars, wfVars, runs, execVars, callVars, is_alive, result, workerVars, procs>>

\* Thread.is_alive() / Thread.join(): the worker thread has ended, by leaving
\* _run_commands or by an exception that nothing in it catches
ThreadEnded == wpc \in {"exit", "died"}

\* line 480
M_IsAlive ==
    /\ mpc = "is_alive"
    /\ is_alive' = ~ThreadEnded
    /\ mpc' = IF ~ThreadEnded THEN "set_timeout" ELSE "return"
    /\ UNCHANGED <<auxVars, wfVars, runs, execVars, callVars, result, workerVars, procs>>

\* variant of lines 483-484 in which the main thread itself records the timeout
\* as the outcome
M_SetTimeoutOccurredAndOutcome ==
    /\ mpc = "set_timeout"
    /\ timeout_occurred_lock = "free"
    /\ timeout_occurred' = TRUE
    /\ cmds_succeeded' = None
    /\ mpc' = "lock_process"
    /\ UNCHANGED <<auxVars, wfVars, runs, execVars, individual_cmds_status,
                   running_process, running_process_lock, timeout_occurred_lock,
                   timeout, is_alive, result, workerVars, procs>>

\* variant of lines 483-484 that sets the flag without taking the timeout lock
M_SetTimeoutOccurredUnlocked ==
    /\ mpc = "set_timeout"
    /\ timeout_occurred' = TRUE
    /\ mpc' = "lock_process"
    /\ UNCHANGED <<auxVars, wfVars, runs, execVars, cmds_succeeded, individual_cmds_status,
                   running_process, running_process_lock, timeout_occurred_lock,
                   timeout, is_alive, result, workerVars, procs>>

\* lines 483-484
M_SetTimeoutOccurred ==
    /\ mpc = "set_timeout"
    /\ timeout_occurred_lock = "free"
    /\ timeout_occurred' = TRUE
    /\ mpc' = "lock_process"
    /\ UNCHANGED <<auxVars, wfVars, runs, execVars, cmds_succeeded, individual_cmds_status,
                   running_process, running_process_lock, timeout_occurred_lock,
                   timeout, is_alive, result, workerVars, procs>>

\* line 486
M_LockRunningProcess ==
    /\ mpc = "lock_process"
    /\ running_process_lock = "free"
    /\ running_process_lock' = "main"
    /\ mpc' = "killpg"
    /\ UNCHANGED <<auxVars, wfVars, runs, execVars, cmds_succeeded, individual_cmds_status,
                   running_process, timeout_occurred, timeout_occurred_lock,
                   timeout, is_alive, result, workerVars, procs>>

\* lines 487-490: killpg on a running group terminates it; on a zombie it has no
\* effect; on a pid already waited for it raises OSError (no such process), which
\* nothing catches, unless the pid now names an unrelated group
M_Killpg ==
    /\ mpc = "killpg"
    /\ running_process_lock = "main"
    /\ running_process_lock' = "free"
    /\ IF running_process = NoProcess
       THEN mpc' = "join_worker" /\ procs' = procs
       ELSE LET p == running_process IN
            CASE procs[p].st = "running" ->
                    /\ procs' = [procs EXCEPT ![p].st = "exited", ![p].code = -SIGTERM]
                    /\ mpc' = "join_worker"
              [] procs[p].st = "exited" ->
                    /\ procs' = procs
                    /\ mpc' = "join_worker"
              [] procs[p].st = "reaped" ->
                    /\ procs' = procs
                    /\ mpc' \in {"OSError", "join_worker"}
    /\ UNCHANGED <<auxVars, wfVars, runs, execVars, cmds_succeeded, individual_cmds_status,
                   running_process, timeout_occurred, timeout_occurred_lock,
                   timeout, is_alive, result, workerVars>>

\* variant of line 491 that does not wait for the worker
M_JoinWorkerNoWait ==
    /\ mpc = "join_worker"
    /\ mpc' = "return"
    /\ UNCHANGED <<auxVars, wfVars, runs, execVars, callVars, is_alive, result, workerVars, procs>>

\* line 491
M_JoinWorker ==
    /\ mpc = "join_worker"
    /\ ThreadEnded
    /\ mpc' = "return"
    /\ UNCHANGED <<auxVars, wfVars, runs, execVars, callVars, is_alive, result, workerVars, procs>>

\* line 493
M_Return ==
    /\ mpc = "return"
    /\ result' = <<cmds_succeeded, individual_cmds_status>>
    /\ mpc' = "returned"
    /\ UNCHANGED <<auxVars, wfVars, runs, execVars, callVars, is_alive, workerVars, procs>>

\* ---------------------------------------------- CommandExecutor._run_commands

\* variants of the outcome update: without the override by the timeout flag
\* (lines 538-539 dropped), and with a success overwriting an earlier failure
UpdateSucceededNoOverride(prev, rv, to) ==
    IF rv # 0 THEN PyFalse ELSE prev

UpdateSucceededLastWins(prev, rv, to) ==
    IF to THEN None ELSE IF rv # 0 THEN PyFalse ELSE PyTrue

\* lines 536-539: the outcome after a command has finished
UpdateSucceeded(prev, rv, to) ==
    IF to THEN None ELSE IF rv # 0 THEN PyFalse ELSE prev

\* variant of the loop exit that ignores stop_on_first_failure
ShouldBreakOnTimeoutOnly(succ, to, stop) == to

\* lines 541-542: "not None" and "not False" are both true in Python
ShouldBreak(succ, to, stop) == to \/ (succ # PyTrue /\ stop)

\* line 497
W_For ==
    /\ wpc = "for"
    /\ IF i < Len(cmds)
       THEN i' = i + 1 /\ wpc' = "check"
       ELSE i' = i /\ wpc' = "exit"
    /\ UNCHANGED <<auxVars, wfVars, runs, execVars, callVars, mainVars, proc, ret_val, observed, spawned, rets, procs>>

\* lines 500-504: take the timeout lock and look at the flag; the lock is kept
\* on the else branch until the process has been started and published
W_Check ==
    /\ wpc = "check"
    /\ timeout_occurred_lock = "free"
    /\ IF timeout_occurred
       THEN /\ cmds_succeeded' = None
            /\ observed' = TRUE
            /\ timeout_occurred_lock' = "free"
            /\ wpc' = "exit"
       ELSE /\ timeout_occurred_lock' = "worker"
            /\ wpc' = "popen"
            /\ UNCHANGED <<cmds_succeeded, observed>>
    /\ UNCHANGED <<auxVars, wfVars, runs, execVars, individual_cmds_status, running_process,
                   running_process_lock, timeout_occurred, timeout, mainVars,
                   i, proc, ret_val, spawned, rets, procs>>

\* lines 505-512: under both locks start the process and publish it
W_Popen ==
    /\ wpc = "popen"
    /\ timeout_occurred_lock = "worker"
    /\ running_process_lock = "free"
    /\ procs' = Append(procs, NewProcess)
    /\ spawned' = Append(spawned, i)
    /\ proc' = Len(procs) + 1
    /\ running_process' = Len(procs) + 1
    /\ timeout_occurred_lock' = "free"
    /\ wpc' = "communicate"
    /\ UNCHANGED <<auxVars, wfVars, runs, execVars, cmds_succeeded, individual_cmds_status,
                   running_process_lock, timeout_occurred, timeout, mainVars,
                   i, ret_val, observed, rets>>

\* variant of lines 517-518 in which communicate() returns without waiting for
\* the process to exit
W_CommunicateNoWait ==
    /\ wpc = "communicate"
    /\ procs' = IF procs[proc].st = "exited"
                THEN [procs EXCEPT ![proc].st = "reaped", ![proc].code = 0]
                ELSE procs
    /\ ret_val' = procs[proc].code
    /\ rets' = Append(rets, procs[proc].code)
    /\ wpc' = "clear"
    /\ UNCHANGED <<auxVars, wfVars, runs, execVars, callVars, mainVars, i, proc, observed, spawned>>

\* lines 517-518: communicate() blocks until the process has exited (by itself or
\* terminated by the main thread) and waits for it
W_Communicate ==
    /\ wpc = "communicate"
    /\ procs[proc].st = "exited"
    /\ procs' = [procs EXCEPT ![proc].st = "reaped", ![proc].code = 0]
    /\ ret_val' = procs[proc].code
    /\ rets' = Append(rets, procs[proc].code)
    /\ wpc' = "clear"
    /\ UNCHANGED <<auxVars, wfVars, runs, execVars, callVars, mainVars, i, proc, observed, spawned>>

\* variant of lines 520-521 that clears the handle without taking the lock
W_ClearRunningProcessUnlocked ==
    /\ wpc = "clear"
    /\ running_process' = NoProcess
    /\ wpc' = "log"
    /\ UNCHANGED <<auxVars, wfVars, runs, execVars, cmds_succeeded, individual_cmds_status,
                   running_process_lock, timeout_occurred, timeout_occurred_lock,
                   timeout, mainVars, i, proc, ret_val, observed, spawned, rets, procs>>

\* lines 520-521
W_ClearRunningProcess ==
    /\ wpc = "clear"
    /\ running_process_lock = "free"
    /\ running_process' = NoProcess
    /\ wpc' = "log"
    /\ UNCHANGED <<auxVars, wfVars, runs, execVars, cmds_succeeded, individual_cmds_status,
                   running_process_lock, timeout_occurred, timeout_occurred_lock,
                   timeout, mainVars, i, proc, ret_val, observed, spawned, rets, procs>>

\* variants of the status bookkeeping: a terminated command leaves no entry;
\* the entry is put in front; the flag is ignored; the entry is added twice
StatusAfterFinishedOnly(status, logind, text, rv) ==
    IF logind /\ rv >= 0 THEN Append(status, [log |-> text, ret |-> rv]) ELSE status

StatusAfterPrepend(status, logind, text, rv) ==
    IF logind THEN <<[log |-> text, ret |-> rv]>> \o status ELSE status

StatusAfterAlways(status, logind, text, rv) ==
    Append(status, [log |-> text, ret |-> rv])

StatusAfterTwice(status, logind, text, rv) ==
    IF logind
    THEN Append(Append(status, [log |-> text, ret |-> rv]), [log |-> text, ret |-> rv])
    ELSE status

\* lines 528-533: the entry added to _individual_cmds_status, if any
StatusAfter(status, logind, text, rv) ==
    IF logind THEN Append(status, [log |-> text, ret |-> rv]) ELSE status

\* variant of the shared log in which a terminated command's output is dropped
LogAfterFinishedOnly(log, text, rv) == IF rv >= 0 THEN Append(log, text) ELSE log

\* line 526: log_f.write appends the text to the shared log
LogAfter(log, text, rv) == Append(log, text)

\* lines 523-533
W_Log ==
    /\ wpc = "log"
    /\ LET text == Frame(cmds[i], Stdout(cmds[i]), Stderr(cmds[i])) IN
        /\ log_f' = LogAfter(log_f, text, ret_val)
        /\ individual_cmds_status' =
               StatusAfter(individual_cmds_status, log_individual_cmds, text, ret_val)
    /\ wpc' = "post"
    /\ UNCHANGED <<auxVars, wfVars, runs, cmds, stop_on_first_failure, log_individual_cmds,
                   cmds_succeeded, running_process, running_process_lock,
                   timeout_occurred, timeout_occurred_lock, timeout, mainVars,
                   i, proc, ret_val, observed, spawned, rets, procs>>

\* lines 535-543
W_Post ==
    /\ wpc = "post"
    /\ timeout_occurred_lock = "free"
    /\ cmds_succeeded' = UpdateSucceeded(cmds_succeeded, ret_val, timeout_occurred)
    /\ observed' = (observed \/ timeout_occurred)
    /\ wpc' = IF ShouldBreak(cmds_succeeded', timeout_occurred, stop_on_first_failure)
              THEN "exit" ELSE "for"
    /\ UNCHANGED <<auxVars, wfVars, runs, execVars, individual_cmds_status, running_process,
                   running_process_lock, timeout_occurred, timeout_occurred_lock,
                   timeout, mainVars, i, proc, ret_val, spawned, rets, procs>>

\* ------------------------------------------------------- the spawned process

\* a running command finishes by itself with some exit code
ProcExit ==
    \E p \in DOMAIN procs, c \in ExitCodes :
        /\ procs[p].st = "running"
        /\ procs' = [procs EXCEPT ![p].st = "exited", ![p].code = c]
        /\ UNCHANGED <<auxVars, wfVars, runs, execVars, callVars, mainVars, workerVars>>

\* ------------------------------------------------------------------ callers

\* a CommandExecutor called on its own, again with the same members (lines 443-444)
DirectCall ==
    /\ caller = "direct"
    /\ mpc \in {"idle", "returned"}
    /\ runs < MaxRuns
    /\ \E t \in TimeoutValues : Call(t)
    /\ UNCHANGED <<wfVars, cmds, stop_on_first_failure, log_individual_cmds>>

\* run_test_suites, lines 66-86, up to the first call of the executor (lines 241-248)
RunTestSuites ==
    /\ caller = "workflow"
    /\ phase = "entry"
    /\ IF InvalidTimeouts(setup_timeout, test_suites_timeout, teardown_timeout)
       THEN /\ phase' = "ValueError"
            /\ UNCHANGED <<auxVars, runs, execVars, callVars, mainVars, workerVars, procs>>
       ELSE /\ phase' = "setup"
            /\ cmds' = setup_cmds
            /\ stop_on_first_failure' = TRUE
            /\ log_individual_cmds' = FALSE
            /\ Call(setup_timeout)
    /\ UNCHANGED <<caller, setup_timeout, test_suites_timeout, teardown_timeout, test_suites>>

\* lines 301-304
CallTeardown ==
    /\ phase' = "teardown"
    /\ cmds' = teardown_cmds
    /\ stop_on_first_failure' = FALSE
    /\ log_individual_cmds' = FALSE
    /\ Call(teardown_timeout)

\* lines 248-268, and 301-304 when the setup commands did not succeed
WfAfterSetup ==
    /\ caller = "workflow"
    /\ phase = "setup"
    /\ mpc = "returned"
    /\ IF result[1] = PyTrue
       THEN /\ phase' = "tests"
            /\ cmds' = test_suites_cmds
            /\ stop_on_first_failure' = FALSE
            /\ log_individual_cmds' = TRUE
            /\ Call(test_suites_timeout)
       ELSE CallTeardown
    /\ UNCHANGED <<caller, setup_timeout, test_suites_timeout, teardown_timeout, test_suites>>

\* lines 268-304
WfAfterTests ==
    /\ caller = "workflow"
    /\ phase = "tests"
    /\ mpc = "returned"
    /\ CallTeardown
    /\ UNCHANGED <<caller, setup_timeout, test_suites_timeout, teardown_timeout, test_suites>>

\* lines 304-321
WfAfterTeardown ==
    /\ caller = "workflow"
    /\ phase = "teardown"
    /\ mpc = "returned"
    /\ phase' = "finished"
    /\ UNCHANGED <<auxVars, caller, setup_timeout, test_suites_timeout, teardown_timeout, test_suites,
                   runs, execVars, callVars, mainVars, workerVars, procs>>

Next ==
    \/ DirectCall
    \/ RunTestSuites
    \/ WfAfterSetup
    \/ WfAfterTests
    \/ WfAfterTeardown
    \/ M_JoinTimed
    \/ M_IsAlive
    \/ M_SetTimeoutOccurred
    \/ M_LockRunningProcess
    \/ M_Killpg
    \/ M_JoinWorker
    \/ M_Return
    \/ W_For
    \/ W_Check
    \/ W_Popen
    \/ W_Communicate
    \/ W_ClearRunningProcess
    \/ W_Log
    \/ W_Post
    \/ ProcExit

Spec == Init /\ [][Next]_vars

\* ------------------------------------------------ a Popen call that fails

\* lines 509-511: Popen raises OSError (the shell cannot be started). Nothing in
\* _run_commands catches it: the two with blocks release their locks and the
\* worker thread ends with the exception
W_PopenRaises ==
    /\ wpc = "popen"
    /\ timeout_occurred_lock = "worker"
    /\ running_process_lock = "free"
    /\ timeout_occurred_lock' = "free"
    /\ wpc' = "died"
    /\ UNCHANGED <<auxVars, wfVars, runs, execVars, cmds_succeeded, individual_cmds_status,
                   running_process, running_process_lock, timeout_occurred, timeout,
                   mainVars, i, proc, ret_val, observed, spawned, rets, procs>>

NextSpawnFailure == Next \/ W_PopenRaises

\* the executor in an environment where starting a process can fail
SpecSpawnFailure == Init /\ [][NextSpawnFailure]_vars

\* ---------------------------------------------------- _build_email_summary

\* a return value as _build_email_summary gets it: an integer, or None
RetVal(code) == [isNone |-> FALSE, code |-> code]
NoRetVal == [isNone |-> TRUE, code |-> 0]
RetVals == {RetVal(c) : c \in ExitCodes \cup {-SIGTERM}} \cup {NoRetVal}

\* lines 332-335: lists of (label, return value) pairs
StatusLists == SeqsUpTo(CmdNames \X RetVals, MaxStatus)

\* variant of line 340 that tests the truth value of ret_val ("not ret_val")
PassOrFailFalsy(rv) == IF rv.isNone \/ rv.code = 0 THEN "Pass\n" ELSE "Fail\n"

\* line 340: 'Pass\n' if ret_val == 0 else 'Fail\n' (None == 0 is False)
PassOrFail(rv) == IF ~rv.isNone /\ rv.code = 0 THEN "Pass\n" ELSE "Fail\n"

\* _build_email_summary is called with some list; the executor is not involved
InitSummary ==
    /\ caller = "none"
    /\ phase = "entry"
    /\ setup_timeout = 1 /\ test_suites_timeout = 1 /\ teardown_timeout = 1
    /\ test_suites = <<>>
    /\ cmds = <<>> /\ stop_on_first_failure = FALSE /\ log_individual_cmds = FALSE
    /\ runs = 0 /\ log_f = <<>> /\ log_start = 0
    /\ cmds_succeeded = PyTrue /\ individual_cmds_status = <<>>
    /\ running_process = NoProcess /\ running_process_lock = "free"
    /\ timeout_occurred = FALSE /\ timeout_occurred_lock = "free"
    /\ timeout = 1
    /\ mpc = "idle" /\ is_alive = FALSE /\ result = NoResult
    /\ wpc = "unstarted" /\ i = 0 /\ proc = NoProcess /\ ret_val = 0
    /\ observed = FALSE /\ spawned = <<>> /\ rets = <<>> /\ procs = <<>>
    /\ test_suites_status \in StatusLists
    /\ summary = <<>>                                     \* line 337
    /\ spc = "for"
    /\ si = 0

\* line 338
S_For ==
    /\ spc = "for"
    /\ IF si < Len(test_suites_status)
       THEN si' = si + 1 /\ spc' = "body"
       ELSE si' = si /\ spc' = "if"
    /\ UNCHANGED <<test_suites_status, summary, log_start, wfVars, runs, execVars,
                   callVars, mainVars, workerVars, procs>>

\* lines 339-340: the pieces are appended to the summary in this order
S_Body ==
    /\ spc = "body"
    /\ summary' = summary \o <<test_suites_status[si][1], ": ">>
                          \o <<PassOrFail(test_suites_status[si][2])>>
    /\ spc' = "for"
    /\ UNCHANGED <<test_suites_status, si, log_start, wfVars, runs, execVars,
                   callVars, mainVars, workerVars, procs>>

\* lines 341-343
S_Return ==
    /\ spc = "if"
    /\ summary' = IF summary # <<>> THEN Append(summary, "\n") ELSE summary
    /\ spc' = "return"
    /\ UNCHANGED <<test_suites_status, si, log_start, wfVars, runs, execVars,
                   callVars, mainVars, workerVars, procs>>

NextSummary == S_For \/ S_Body \/ S_Return

SpecSummary == InitSummary /\ [][NextSummary]_vars

\* ------------------------------------------------------------ with blocks

\* the locks whose with block encloses the code of the main thread's next step:
\* lines 483-484 and 486-490
MainLocks(pc) ==
    CASE pc = "set_timeout" -> {"timeout_occurred_lock"}
      [] pc \in {"lock_process", "killpg"} -> {"running_process_lock"}
      [] OTHER -> {}

\* the locks whose with block encloses the code of the worker's next step:
\* lines 500-504, 505-512, 520-521 and 535-543
WorkerLocks(pc) ==
    CASE pc = "check" -> {"timeout_occurred_lock"}
      [] pc = "popen" -> {"timeout_occurred_lock", "running_process_lock"}
      [] pc = "clear" -> {"running_process_lock"}
      [] pc = "post" -> {"timeout_occurred_lock"}
      [] OTHER -> {}

\* ------------------------------------------------------------- vocabulary

Returned == mpc = "returned"
Outcome == result[1]
Results == result[2]

\* the controller's timed wait expired with the worker still running (line 480)
DeadlineExpired == is_alive

\* the status entry of the j-th command of the batch
EntryOf(j) == [log |-> Frame(cmds[j], Stdout(cmds[j]), Stderr(cmds[j])), ret |-> rets[j]]

\* the status entries of commands 1..n, in the order of the batch
EntriesUpTo(n) == [j \in 1..n |-> EntryOf(j)]

\* what the second element holds for n executed commands
StatusFor(n) == IF log_individual_cmds THEN EntriesUpTo(n) ELSE <<>>

FirstN(n) == [j \in 1..n |-> j]

AllZero(codes) == \A j \in DOMAIN codes : codes[j] = 0

\* command k is the first one that exited nonzero
FirstFailure(k) ==
    /\ k \in DOMAIN rets
    /\ rets[k] # 0
    /\ \A j \in 1..(k - 1) : rets[j] = 0

\* the last command waited for was terminated by the main thread's signal
LastTerminated == rets # <<>> /\ rets[Len(rets)] = -SIGTERM

\* ---------------------------------------------------------------------- C1

SomeTimeoutNonpositive ==
    \E t \in {setup_timeout, test_suites_timeout, teardown_timeout} : t <= 0

C2_TerminatedCommandLeavesNoResult ==
    (Returned /\ LastTerminated) =>
        /\ Outcome = None
        /\ Len(Results) = Len(rets) - 1
        /\ spawned = FirstN(Len(rets))

\* C2 amended: run returns None, commands k+1..N are never spawned, and the
\* returned list is empty when log_individual_cmds is False and otherwise holds k
\* entries: commands 1..k-1 with their own exit codes, then the terminated
\* command k with return code -SIGTERM.
C2_TerminatedCommandIsRecorded ==
    (Returned /\ LastTerminated) =>
        /\ Outcome = None
        /\ spawned = FirstN(Len(rets))
        /\ \A j \in 1..(Len(rets) - 1) : rets[j] \in ExitCodes
        /\ Results = StatusFor(Len(rets))

C2_Witness ==
    /\ Returned /\ LastTerminated
    /\ Len(cmds) = 3 /\ Len(rets) = 2 /\ rets[1] = 0
    /\ log_individual_cmds /\ ~stop_on_first_failure

\* ---------------------------------------------------------------------- C3

\* C3 as stated: whenever the timed wait expires with the worker still running,
\* run returns None, never True or False.
C3_ExpiredWaitAlwaysTimedOut ==
    (Returned /\ DeadlineExpired) => Outcome = None

\* the outcome of a worker that never saw the flag: it ran the batch to its end,
\* or to the first failure under stop_on_first_failure
NormalOutcome == IF AllZero(rets) THEN PyTrue ELSE PyFalse

RanToItsEnd ==
    \/ Len(rets) = Len(cmds)
    \/ stop_on_first_failure /\ FirstFailure(Len(rets))

\* C3 amended: whenever the timed wait expires with the worker still running and
\* run returns, the outcome is None exactly when the worker read the flag as set at
\* one of its checks; a worker already past its last check returns its normal
\* outcome (True if every command exited 0, else False); in both cases the list
\* holds every entry recorded so far.
C3_ExpiredWaitTimedOutIffObserved ==
    (Returned /\ DeadlineExpired) =>
        /\ Outcome = None <=> observed
        /\ ~observed => (Outcome = NormalOutcome /\ RanToItsEnd)
        /\ Results = StatusFor(Len(rets))

C3_Witness ==
    Returned /\ DeadlineExpired /\ observed /\ Outcome = None /\ rets = <<0, 1>>

\* ---------------------------------------------------------------------- C4

\* C4 as stated: on the timeout path the caller always gets a return value and
\* never an exception: a failing termination signal is swallowed.
C4_SignalFailureSwallowed ==
    DeadlineExpired => mpc # "OSError"

\* ---------------------------------------------------------------------- C5

NoExpiryStopOnFailure(k) ==
    Returned /\ ~DeadlineExpired /\ stop_on_first_failure /\ FirstFailure(k)

\* C5 as stated: command k is the first to exit nonzero, stop_on_first_failure is
\* set and the deadline does not expire: run returns False with exactly k results
\* and commands k+1..N are never spawned.
C5_StopOnFirstFailureReturnsKResults ==
    \A k \in 1..Len(cmds) :
        NoExpiryStopOnFailure(k) =>
            /\ Outcome = PyFalse
            /\ Len(Results) = k
            /\ spawned = FirstN(k)

\* C5 amended: run returns False, commands k+1..N are never spawned, and the
\* returned list holds the k entries of commands 1..k in order when
\* log_individual_cmds is True and is empty when it is False.
C5_StopOnFirstFailureStopsAtK ==
    \A k \in 1..Len(cmds) :
        NoExpiryStopOnFailure(k) =>
            /\ Outcome = PyFalse
            /\ spawned = FirstN(k)
            /\ Len(rets) = k
            /\ Results = StatusFor(k)

C5_Witness ==
    /\ NoExpiryStopOnFailure(2)
    /\ Len(cmds) = 3 /\ log_individual_cmds /\ Len(Results) = 2

\* ---------------------------------------------------------------------- C6

NoExpiryNoStop == Returned /\ ~DeadlineExpired /\ ~stop_on_first_failure

AllExitedZeroInTime ==
    Returned /\ ~DeadlineExpired /\ Len(rets) = Len(cmds) /\ AllZero(rets)

\* C7 as stated: N commands that all exit 0 before the deadline: run returns True
\* with exactly N results in input order, whatever log_individual_cmds is.
C7_AllSucceededReturnsNResults ==
    AllExitedZeroInTime =>
        /\ Outcome = PyTrue
        /\ Results = EntriesUpTo(Len(cmds))

\* C7 amended: run returns True; the list holds the N entries in input order when
\* log_individual_cmds is True and is empty when it is False.
C7_AllSucceeded ==
    AllExitedZeroInTime =>
        /\ Outcome = PyTrue
        /\ spawned = FirstN(Len(cmds))
        /\ Results = StatusFor(Len(cmds))

C7_Witness ==
    /\ AllExitedZeroInTime /\ log_individual_cmds
    /\ cmds = <<"B", "A", "A">> /\ Len(Results) = 3

\* ---------------------------------------------------------------------- C8

\* C8: the second element returned is the empty list when log_individual_cmds is
\* False; when it is True it holds one (log, return code) pair for each command
\* that was spawned and waited for, in execution order.
C8_SecondElement ==
    Returned =>
        /\ Len(rets) = Len(spawned)
        /\ ~log_individual_cmds => Results = <<>>
        /\ log_individual_cmds =>
              Results = [j \in 1..Len(spawned) |->
                            [log |-> Frame(cmds[spawned[j]], Stdout(cmds[spawned[j]]),
                                           Stderr(cmds[spawned[j]])),
                             ret |-> rets[j]]]

C8_Witness ==
    /\ Returned /\ log_individual_cmds /\ DeadlineExpired
    /\ Len(spawned) = 2 /\ Len(Results) = 2

\* ---------------------------------------------------------------------- C9

\* C9: for an empty batch run returns True with an empty list and spawns no
\* process, whatever the timeout and however the worker's exit and the
\* controller's deadline interleave.
C9_EmptyBatch ==
    (runs > 0 /\ cmds = <<>>) =>
        /\ spawned = <<>>
        /\ mpc # "OSError"
        /\ Returned => result = <<PyTrue, <<>>>>

C9_Witness ==
    Returned /\ cmds = <<>> /\ DeadlineExpired /\ timeout > 0 /\ result = <<PyTrue, <<>>>>

\* --------------------------------------------------------------------- C10

C10_Prefix ==
    /\ Len(individual_cmds_status) <= Len(cmds)
    /\ Len(individual_cmds_status) <= Len(rets)
    /\ \A j \in DOMAIN individual_cmds_status : individual_cmds_status[j] = EntryOf(j)
    /\ Returned =>
          /\ Results = individual_cmds_status
          /\ log_individual_cmds => Len(Results) = Len(rets)

C10_AppendOnly ==
    \/ individual_cmds_status' = individual_cmds_status
    \/ /\ Len(individual_cmds_status') = Len(individual_cmds_status) + 1
       /\ SubSeq(individual_cmds_status', 1, Len(individual_cmds_status))
              = individual_cmds_status
    \/ runs' = runs + 1 /\ individual_cmds_status' = <<>>

\* C10: in every state of a run the recorded list is no longer than the batch and
\* is a prefix of it (entry j is command j's, no gap, no reordering, no command
\* twice); within a run entries are only appended; the list returned on timeout or
\* stop-on-first-failure holds every entry recorded.
C10_ResultsArePrefix == [](C10_Prefix) /\ [][C10_AppendOnly]_vars

C10_Witness ==
    /\ Returned /\ DeadlineExpired /\ Len(cmds) = 3 /\ Len(Results) = 2
    /\ Results[1].ret = 1 /\ Results[2].ret = -SIGTERM

\* --------------------------------------------------------------------- C11

\* what this run has appended to the shared log
AddedToLog == SubSeq(log_f, log_start + 1, Len(log_f))

FrameOf(k) == Frame(cmds[k], Stdout(cmds[k]), Stderr(cmds[k]))

\* C11: every command that was spawned has its framed output appended to the
\* shared log exactly once, in the order the commands were issued, a command
\* terminated by the controller included; commands never spawned add nothing;
\* when run returns, the entries added by the run are as many as the processes
\* it spawned.
C11_LogEntries ==
    /\ spawned = FirstN(Len(spawned))
    /\ Len(log_f) >= log_start
    /\ Len(AddedToLog) <= Len(spawned)
    /\ \A j \in DOMAIN AddedToLog : AddedToLog[j] = FrameOf(spawned[j])
    /\ Returned => Len(AddedToLog) = Len(spawned)

C11_Witness ==
    /\ Returned /\ LastTerminated /\ Len(cmds) = 3 /\ cmds[1] # cmds[2]
    /\ Len(spawned) = 2 /\ Len(AddedToLog) = 2 /\ log_start > 0

\* --------------------------------------------------------------------- C12

\* the pids of the processes the current run has spawned
PidsOfRun == (Len(procs) - Len(spawned) + 1)..Len(procs)

\* C12: when run returns, with any outcome, no process spawned by that run is
\* still running (each has exited and been waited for), the published process
\* handle is none, and the worker has exited.
C12_NothingLeftAtReturn ==
    Returned =>
        /\ \A p \in PidsOfRun : procs[p].st = "reaped"
        /\ running_process = NoProcess
        /\ wpc = "exit"
        /\ Len(rets) = Len(spawned)

C12_Witness ==
    /\ Returned /\ DeadlineExpired /\ Outcome = None /\ LastTerminated
    /\ Len(spawned) = 2 /\ Len(cmds) = 3

\* --------------------------------------------------------------------- C13

\* a call that follows a completed run starts from fresh per-run state and
\* leaves the shared log as it was
C13_FreshStart ==
    (runs' = runs + 1 /\ runs >= 1) =>
        /\ Returned
        /\ cmds_succeeded' = PyTrue
        /\ timeout_occurred' = FALSE
        /\ running_process' = NoProcess
        /\ individual_cmds_status' = <<>>
        /\ log_f' = log_f

\* the shared log only grows at its end
C13_LogKept ==
    \/ log_f' = log_f
    \/ Len(log_f') = Len(log_f) + 1 /\ SubSeq(log_f', 1, Len(log_f)) = log_f

\* the result of a later run is decided by that run alone
C13_OwnResult ==
    (Returned /\ runs >= 2) =>
        /\ Outcome = (IF observed THEN None ELSE NormalOutcome)
        /\ Results = StatusFor(Len(rets))
        /\ Len(log_f) = log_start + Len(rets)

\* C13: calling run again on the same executor after a run has completed starts
\* from fresh per-run state whatever the previous outcome was (outcome flag
\* success, abort flag false, process handle none, results empty), so the previous
\* outcome never affects the next run's outcome or results; only the shared log is
\* carried over, the new run's entries appended after the old ones.
C13_RerunStartsFresh ==
    [](C13_OwnResult) /\ [][C13_FreshStart /\ C13_LogKept]_vars

\* the teardown batch succeeds right after a setup batch that failed or timed out
C13_Witness ==
    /\ caller = "workflow" /\ phase = "teardown" /\ runs = 2
    /\ Returned /\ Outcome = PyTrue /\ rets = <<0>> /\ Len(log_f) = 2

\* --------------------------------------------------------------------- C14

\* the Popen call for command i failed
SpawnFailed == wpc = "died"

\* C14 as stated: a spawn failure for command k is handled like a failed command:
\* a result with a nonzero exit code is recorded for command k and the outcome is
\* never left at True.
C14_SpawnFailureIsCommandFailure ==
    (Returned /\ SpawnFailed) =>
        /\ Len(rets) = i /\ rets[i] # 0
        /\ Len(AddedToLog) = i
        /\ Outcome # PyTrue

\* --------------------------------------------------------------------- C15

\* the line of the j-th pair: label, ': ', and Pass exactly for a return value 0
C15_Lines ==
    \A j \in 1..Len(test_suites_status) :
        /\ summary[3 * j - 2] = test_suites_status[j][1]
        /\ summary[3 * j - 1] = ": "
        /\ summary[3 * j] =
               IF test_suites_status[j][2] = RetVal(0) THEN "Pass\n" ELSE "Fail\n"

\* C15: _build_email_summary maps a list of (label, exit code) pairs to one line
\* per pair in input order, '<label>: Pass' exactly when the code equals 0 and
\* '<label>: Fail' otherwise (None included), followed by one extra blank line when
\* the list is not empty, and to the empty string when it is empty.
C15_Summary ==
    spc = "return" =>
        IF test_suites_status = <<>>
        THEN summary = <<>>
        ELSE /\ Len(summary) = 3 * Len(test_suites_status) + 1
             /\ C15_Lines
             /\ summary[Len(summary)] = "\n"

C15_Witness ==
    /\ spc = "return"
    /\ test_suites_status = <<<<"B", RetVal(0)>>, <<"A", NoRetVal>>, <<"A", RetVal(-SIGTERM)>>>>
    /\ summary = <<"B", ": ", "Pass\n", "A", ": ", "Fail\n", "A", ": ", "Fail\n", "\n">>

\* --------------------------------------------------------------------- C16

\* C16: timeout takes precedence over failure and is never reported spuriously:
\* when the worker saw the abort flag at one of its checks the returned outcome is
\* TimedOut; the outcome is TimedOut only if the controller set the abort flag,
\* False only if some executed command exited nonzero, and True only if every
\* command of the batch was executed and exited 0.
C16_OutcomePrecedence ==
    Returned =>
        /\ observed => Outcome = None
        /\ Outcome = None => timeout_occurred
        /\ Outcome = PyFalse => \E j \in DOMAIN rets : rets[j] # 0
        /\ Outcome = PyTrue => Len(rets) = Len(cmds) /\ AllZero(rets)

\* --------------------------------------------------------------------- C17

\* between its check of the flag and the spawn the worker holds the timeout lock
C17_CheckAndSpawnUnderLock ==
    wpc = "popen" => ~timeout_occurred /\ timeout_occurred_lock = "worker"

\* a step taken with the abort flag set starts no process and publishes no handle
C17_NoSpawnStep ==
    timeout_occurred =>
        /\ Len(procs') = Len(procs)
        /\ running_process' \in {running_process, NoProcess}

\* C17: once the controller has set the abort flag the worker never spawns another
\* process; the worker's check of the flag and its spawn-and-publish are atomic
\* with respect to the controller setting the flag, in every interleaving.
C17_NoSpawnAfterAbort ==
    [](C17_CheckAndSpawnUnderLock) /\ [][C17_NoSpawnStep]_vars

\* the run returned after the worker saw the flag at its check and left commands
\* of the batch unstarted; the controller had found no process to signal
C17_Witness ==
    /\ Returned
    /\ observed
    /\ timeout_occurred
    /\ Len(spawned) < Len(cmds)
    /\ \A j \in DOMAIN rets : rets[j] # -SIGTERM

\* --------------------------------------------------------------------- C18

\* the processes that were spawned and not yet waited for
InFlight == {p \in DOMAIN procs : procs[p].st # "reaped"}

\* a step that spawns finds every earlier process waited for and no handle published
C18_SpawnStep ==
    Len(procs') > Len(procs) => InFlight = {} /\ running_process = NoProcess

\* C18: at every instant of a run, and across consecutive runs of one executor, at
\* most one spawned process is in flight; the next command is spawned only after
\* the previous command's process has exited and its handle has been cleared.
C18_OneProcessInFlight ==
    [](Cardinality(InFlight) <= 1) /\ [][C18_SpawnStep]_vars

\* in the second run of the executor the second command of the batch is running,
\* after processes of the first run
C18_Witness ==
    /\ runs = 2
    /\ Len(spawned) >= 2
    /\ Len(procs) > Len(spawned)
    /\ InFlight = {Len(procs)}
    /\ procs[Len(procs)].st = "running"

\* --------------------------------------------------------------------- C19

\* a call of the executor has started and has not returned
CallInProgress == mpc \notin {"idle", "returned"}

\* C19: every run call eventually returns, with no deadlock between worker and
\* controller over the two locks, given that every spawned process exits by itself
\* or after its group is signalled. On finite runs: while a call is in progress
\* some thread or the running process can take a step, so the run never comes to
\* rest before the call has returned.
C19_CallNeverStuck ==
    CallInProgress => ENABLED Next

\* --------------------------------------------------------------------- C20

\* C20: whenever the process handle is published (not None) the process it refers
\* to is still in flight, so the controller never signals a process that is gone.
\* In flight is taken in the widest sense: running, or exited and not yet waited
\* for, which is as long as the pid still names the process.
C20_PublishedHandleInFlight ==
    running_process # NoProcess => procs[running_process].st # "reaped"

\* --------------------------------------------------------------------- C21

\* which thread takes the step; a step that starts a run resets the state and
\* starts the worker (lines 461-477)
CallStep == runs' # runs
MainStep == runs' = runs /\ mpc' # mpc
WorkerStep == runs' = runs /\ wpc' # wpc

WorkerAlive == wpc \notin {"unstarted", "exit", "died"}

\* C21 as stated: every write of the shared log, the abort flag, the process
\* reference and the success/failure flag, and the controller's read of the
\* success/failure flag for its return value, is made inside a with block of a lock.
C21_EveryAccessGuarded ==
    [][/\ (\/ log_f' # log_f
           \/ timeout_occurred' # timeout_occurred
           \/ running_process' # running_process
           \/ cmds_succeeded' # cmds_succeeded)
          => \/ WorkerStep /\ WorkerLocks(wpc) # {}
             \/ MainStep /\ MainLocks(mpc) # {}
       /\ (MainStep /\ mpc = "return") => MainLocks(mpc) # {}]_vars

\* a step from inside a with block is taken only while the other thread is not
\* inside a with block of the same lock
C21_LocksExclude ==
    /\ (WorkerStep /\ "running_process_lock" \in WorkerLocks(wpc))
           => running_process_lock # "main"
    /\ (MainStep /\ "running_process_lock" \in MainLocks(mpc))
           => running_process_lock # "worker"
    /\ (MainStep /\ "timeout_occurred_lock" \in MainLocks(mpc))
           => timeout_occurred_lock # "worker"

\* during a run the abort flag is written by the controller under its lock, the
\* process reference by the worker under its lock, and the success/failure flag
\* by the worker under the lock of the abort flag
C21_GuardedWrites ==
    ~CallStep =>
        /\ timeout_occurred' # timeout_occurred
               => MainStep /\ "timeout_occurred_lock" \in MainLocks(mpc)
        /\ running_process' # running_process
               => WorkerStep /\ "running_process_lock" \in WorkerLocks(wpc)
        /\ cmds_succeeded' # cmds_succeeded
               => WorkerStep /\ "timeout_occurred_lock" \in WorkerLocks(wpc)

\* the accesses outside every with block: the log is written by the worker alone,
\* and the controller resets the state only while no worker is alive
C21_UnguardedAccess ==
    /\ log_f' # log_f => WorkerStep /\ WorkerLocks(wpc) = {}
    /\ CallStep => ~WorkerAlive /\ MainLocks(mpc) = {}

\* C21, amended: the abort flag and the process reference are written under their
\* own locks and the worker writes the success/failure flag under the lock of the
\* abort flag, the with blocks of one lock excluding each other; the shared log is
\* written by the worker outside every lock, and the controller resets the state
\* and reads the success/failure flag for its return value outside every lock,
\* which it does only while no worker thread is alive.
C21_GuardedOrExclusive ==
    /\ []((mpc \in {"return", "returned"}) => ~WorkerAlive)
    /\ [][C21_LocksExclude /\ C21_GuardedWrites /\ C21_UnguardedAccess]_vars

\* the worker has written a frame to the log outside every lock while the
\* controller, having set the abort flag, is inside the with block of the
\* process lock
C21_Witness ==
    /\ wpc = "post"
    /\ Len(AddedToLog) = i
    /\ timeout_occurred
    /\ running_process_lock = "main"
    /\ mpc = "killpg"

\* --------------------------------------------------------------------- C22

\* the per-command logs hold the text of the shared log, one frame each
C22_IndividualLogs ==
    IF log_individual_cmds
    THEN /\ Len(individual_cmds_status) = Len(AddedToLog)
         /\ \A j \in DOMAIN individual_cmds_status :
                individual_cmds_status[j].log = AddedToLog[j]
    ELSE individual_cmds_status = <<>>

\* C22 as stated: the text appended to the shared log for each executed command is
\* exactly "Command:\n<cmd>\n\nStdout:\n<out>\nStderr:\n<err>\n", and with
\* log_individual_cmds the identical text is written to a fresh log of that command.
C22_FrameAsStated ==
    /\ \A j \in DOMAIN AddedToLog :
           AddedToLog[j] = FrameSingleNewline(cmds[j], Stdout(cmds[j]), Stderr(cmds[j]))
    /\ C22_IndividualLogs

\* C22, amended: the text appended to the shared log for each executed command is
\* exactly "Command:\n\n<cmd>\n\nStdout:\n\n<out>\nStderr:\n\n<err>\n" (each header
\* is followed by an empty line), and with log_individual_cmds the identical text
\* is written to a fresh log of that command alone.
C22_FrameText ==
    /\ \A j \in DOMAIN AddedToLog :
           AddedToLog[j] = <<"Command:\n\n", cmds[j], "\n\n",
                             "Stdout:\n\n", Stdout(cmds[j]), "\n",
                             "Stderr:\n\n", Stderr(cmds[j]), "\n">>
    /\ C22_IndividualLogs

\* a run with per-command logs has written the frames of two different commands
C22_Witness ==
    /\ Returned
    /\ log_individual_cmds
    /\ Len(AddedToLog) = 2
    /\ cmds[1] # cmds[2]
    /\ individual_cmds_status[2].log = AddedToLog[2]
    /\ AddedToLog[2][2] = cmds[2]

\* --------------------------------------------------------------------- C23

InWorkflow == caller = "workflow" /\ phase # "ValueError"

\* the batches are the calls of the one executor, in this order: setup is its
\* first call, the test suites its second, teardown its second or third
C23_Order ==
    InWorkflow =>
        /\ phase = "entry" => runs = 0
        /\ phase = "setup" => runs = 1 /\ cmds = setup_cmds
        /\ phase = "tests" => runs = 2 /\ cmds = test_suites_cmds
        /\ phase \in {"teardown", "finished"} => runs \in {2, 3} /\ cmds = teardown_cmds

\* the test suites are started only from a setup batch that returned True, and
\* teardown is started once, after setup or after the test suites have returned
C23_PhaseStep ==
    /\ (phase' = "tests" /\ phase # "tests")
           => phase = "setup" /\ Returned /\ Outcome = PyTrue
    /\ (phase' = "teardown" /\ phase # "teardown")
           => /\ phase \in {"setup", "tests"}
              /\ Returned
              /\ phase = "setup" => Outcome # PyTrue
    /\ phase = "teardown" => phase' \in {"teardown", "finished"}
    /\ phase = "finished" => phase' = "finished" /\ runs' = runs

\* C23: the setup, test-suite and teardown batches run strictly in that order on
\* one executor, the test-suite batch only if the setup batch returned True, and
\* the teardown batch is always run exactly once whatever happened in setup and in
\* the test suites: a workflow that has come to rest has finished its teardown.
C23_TeardownAlwaysRuns ==
    /\ [](C23_Order)
    /\ []((InWorkflow /\ ~ENABLED Next) => phase = "finished")
    /\ [][C23_PhaseStep]_vars

\* --------------------------------------------------------------------- C24

\* the worker has spawned a command and has not yet finished its bookkeeping for it
CommandInFlight == wpc \in {"communicate", "clear", "log", "post"}

\* the worker will look at the abort flag again: at a check before the next
\* command or after the command it is working on
WillSeeFlag == wpc = "check" \/ (wpc = "for" /\ i < Len(cmds)) \/ CommandInFlight

\* the test-suite batch returned None: the status list is not empty, has one entry
\* per spawned suite and ends with the entry of the last spawned suite
C24_LastEntry ==
    (phase = "tests" /\ Returned /\ Outcome = None) =>
        /\ Results # <<>>
        /\ Len(Results) = Len(spawned)
        /\ Results[Len(Results)] = EntryOf(Len(Results))

\* when the deadline of a test-suite batch that will return None fires, a suite is
\* in flight
C24_DeadlineStep ==
    (phase = "tests" /\ ~timeout_occurred /\ timeout_occurred' /\ WillSeeFlag)
        => CommandInFlight

\* C24: whenever the test-suite batch returns outcome None, the returned status
\* list is non-empty and its last entry belongs to the command that was in flight
\* when the deadline fired, so that index len(status)-1 names the suite during
\* which the timeout occurred and the suites after it are the ones never spawned.
C24_TimeoutNamesSuiteInFlight ==
    [](C24_LastEntry) /\ [][C24_DeadlineStep]_vars

====
